---- MODULE Spec2Model ----
(***************************************************************************)
(* Model of the pan-tilt servo simulation of main.cpp: the class           *)
(* PanTiltMechanism (joint angles, stored speeds, clamped integration) and *)
(* the per-frame callback handed to canvas.animate (speed command,         *)
(* alternating gimbal-camera capture, main render, flip and forward).      *)
(*                                                                         *)
(* Units.  Floats are modelled in fixed point: a speed is an integer       *)
(* number of 1e-4 rad/s, a time an integer number of seconds, and an angle *)
(* an integer number of 1e-4 rad, so angle += speed * delta is exact.      *)
(* A frame is a sequence of rows (row 1 is the first row of the buffer);   *)
(* a row's pixels are abstracted to one value.                             *)
(***************************************************************************)
EXTENDS Integers, Sequences, FiniteSets

\* ---------------------------------------------------------------- bounds
MaxTick == 4        \* frames the animation loop is followed for
MaxDt == 2          \* largest clock delta, in seconds
MaxCalls == 4       \* calls made on a PanTiltMechanism by the class harness
MaxK == 2           \* commanded speeds are multiples -MaxK..MaxK of SpeedStep
SpeedStep == 3000   \* spacing of the commanded speeds of the class harness
FrameRows == 3      \* rows of the frame read back from the renderer
MaxPixel == 1       \* row contents are 0..MaxPixel

\* ------------------------------------------------------- program constants
maxSpeed_ == 5000   \* float maxSpeed_{0.5}, in 1e-4 rad/s

virtualCameraSize == <<FrameRows, FrameRows>>   \* {640, 640}: a square frame

\* Speed command of the callback, already in 1e-4 rad/s:
\* degToRad(TWO_PI * 0.05 * 90 * cos(TWO_PI * 0.05 * t)), t in whole seconds.
\* The period is 20 s; the amplitude is 0.49348 rad/s.
SpeedTable ==
    <<4935, 4693, 3992, 2901, 1525, 0, -1525, -2901, -3992, -4693,
      -4935, -4693, -3992, -2901, -1525, 0, 1525, 2901, 3992, 4693>>

SpeedAt(t) == SpeedTable[(t % Len(SpeedTable)) + 1]

\* ------------------------------------------------------------ input sets
Dts == 0..MaxDt                      \* Clock::getDelta() in the callback
DtVals == (0 - MaxDt)..MaxDt         \* delta passed to update() by a caller
SpeedVals == {k * SpeedStep : k \in (0 - MaxK)..MaxK} \cup {maxSpeed_, 0 - maxSpeed_}
CamSizes == {<<w, h>> : w \in {-1, 0, 2}, h \in {0, 2}}
CanvasSizes == {<<FrameRows + 1, FrameRows>>, virtualCameraSize}
Frames == [1..FrameRows -> 0..MaxPixel]

VARIABLES
    \* PanTiltMechanism
    constructed, camSize, panAngle, tiltAngle, panSpeed_, tiltSpeed_,
    \* main and the animate callback
    pc, tick, renderVirtual, dt, elapsedTime, image, helperVisible,
    rendererSize, canvasSize,
    \* what the collaborators saw: the last render pass and the display sink
    lastRender, sink,
    \* history of the run, read by the properties only
    hist

mechVars == <<constructed, camSize, panAngle, tiltAngle, panSpeed_, tiltSpeed_>>
loopVars == <<pc, tick, renderVirtual, dt, elapsedTime, image, helperVisible,
              rendererSize, canvasSize>>
outVars == <<lastRender, sink>>
vars == <<mechVars, loopVars, outVars, hist>>

\* ------------------------------------------------------------ functions
Sign(x) == IF x > 0 THEN 1 ELSE IF x < 0 THEN -1 ELSE 0
Abs(x) == IF x < 0 THEN 0 - x ELSE x

ClampNoLimit(v, lo, hi) == v

\* std::clamp(v, lo, hi)
Clamp(v, lo, hi) == IF v < lo THEN lo ELSE IF hi < v THEN hi ELSE v

IntegrateGuarded(angle, speed, delta) ==
    IF delta > 0 THEN angle + Clamp(speed, 0 - maxSpeed_, maxSpeed_) * delta ELSE angle

\* rotation += std::clamp(speed, -maxSpeed_, maxSpeed_) * delta
Integrate(angle, speed, delta) ==
    angle + Clamp(speed, 0 - maxSpeed_, maxSpeed_) * delta

ShouldRenderVirtualOdd(t) == t % 2 = 1

\* const bool renderVirtual = tick % 2 == 0
ShouldRenderVirtual(t) == t % 2 = 0

FlipRotate(img) == [i \in 1..Len(img) |-> img[(i % Len(img)) + 1]]

\* cv::flip(image, image, 0): flip around the x axis, the rows in reverse order
Flip(img) == [i \in 1..Len(img) |-> img[Len(img) + 1 - i]]

NoRender == [cam |-> "none", size |-> <<0, 0>>, helper |-> TRUE]
NoSink == [tick |-> -1, frame |-> <<>>]

HistInit ==
    [prevPan |-> 0, prevTilt |-> 0, prevPanSpeed |-> 0, prevTiltSpeed |-> 0,
     lastOp |-> "none", calls |-> 0,
     cmdPan |-> 0, cmdTilt |-> 0, runStart |-> 0, runDt |-> 0, runN |-> 0,
     ticksStarted |-> 0, mainRenders |-> 0, gimbalRenders |-> 0,
     captured |-> <<>>, capTick |-> -1, captures |-> 0, sinkCount |-> 0,
     flips |-> 0]

\* ------------------------------------------------- class PanTiltMechanism
\* PanTiltMechanism(WindowSize camSize): builds the camera from
\* camSize.aspect() and the joint chain; no check of camSize is made.
\* Rotations start at 0, panSpeed_{0}, tiltSpeed_{0}.
Construct ==
    /\ pc = "ctor"
    /\ constructed' = TRUE
    /\ panAngle' = 0
    /\ tiltAngle' = 0
    /\ panSpeed_' = 0
    /\ tiltSpeed_' = 0
    /\ pc' = "api"
    /\ UNCHANGED <<camSize, tick, renderVirtual, dt, elapsedTime, image,
                   helperVisible, rendererSize, canvasSize, outVars, hist>>

\* void setTiltSpeed(float rad) { tiltSpeed_ = rad; }
SetTiltSpeed(rad) ==
    /\ pc = "api"
    /\ hist.calls < MaxCalls
    /\ tiltSpeed_' = rad
    /\ hist' = [hist EXCEPT !.calls = @ + 1, !.lastOp = "setTilt",
                            !.cmdTilt = rad,
                            !.prevPan = panAngle, !.prevTilt = tiltAngle,
                            !.prevPanSpeed = panSpeed_,
                            !.prevTiltSpeed = tiltSpeed_]
    /\ UNCHANGED <<constructed, camSize, panAngle, tiltAngle, panSpeed_,
                   loopVars, outVars>>

\* void setPanSpeed(float rad) { panSpeed_ = rad; }
SetPanSpeed(rad) ==
    /\ pc = "api"
    /\ hist.calls < MaxCalls
    /\ panSpeed_' = rad
    /\ hist' = [hist EXCEPT !.calls = @ + 1, !.lastOp = "setPan",
                            !.cmdPan = rad,
                            !.runStart = panAngle, !.runDt = 0, !.runN = 0,
                            !.prevPan = panAngle, !.prevTilt = tiltAngle,
                            !.prevPanSpeed = panSpeed_,
                            !.prevTiltSpeed = tiltSpeed_]
    /\ UNCHANGED <<constructed, camSize, panAngle, tiltAngle, tiltSpeed_,
                   loopVars, outVars>>

\* The run of equal-delta updates since the last setPanSpeed: a different
\* delta starts a new run at the angle before this update.
RunAfter(delta) ==
    IF hist.runN = 0 \/ hist.runDt = delta
    THEN [start |-> hist.runStart, n |-> hist.runN + 1]
    ELSE [start |-> panAngle, n |-> 1]

UpdateStoreClamped(delta) ==
    /\ pc = "api"
    /\ hist.calls < MaxCalls
    /\ tiltAngle' = Integrate(tiltAngle, tiltSpeed_, delta)
    /\ panAngle' = Integrate(panAngle, panSpeed_, delta)
    /\ panSpeed_' = Clamp(panSpeed_, 0 - maxSpeed_, maxSpeed_)
    /\ tiltSpeed_' = Clamp(tiltSpeed_, 0 - maxSpeed_, maxSpeed_)
    /\ dt' = delta
    /\ hist' = [hist EXCEPT !.calls = @ + 1, !.lastOp = "update",
                            !.runStart = RunAfter(delta).start,
                            !.runN = RunAfter(delta).n, !.runDt = delta,
                            !.prevPan = panAngle, !.prevTilt = tiltAngle,
                            !.prevPanSpeed = panSpeed_,
                            !.prevTiltSpeed = tiltSpeed_]
    /\ UNCHANGED <<constructed, camSize, pc, tick, renderVirtual, elapsedTime,
                   image, helperVisible, rendererSize, canvasSize, outVars>>

\* void update(float delta): tilt, then pan; the stored speeds are only read.
Update(delta) ==
    /\ pc = "api"
    /\ hist.calls < MaxCalls
    /\ tiltAngle' = Integrate(tiltAngle, tiltSpeed_, delta)
    /\ panAngle' = Integrate(panAngle, panSpeed_, delta)
    /\ dt' = delta
    /\ hist' = [hist EXCEPT !.calls = @ + 1, !.lastOp = "update",
                            !.runStart = RunAfter(delta).start,
                            !.runN = RunAfter(delta).n, !.runDt = delta,
                            !.prevPan = panAngle, !.prevTilt = tiltAngle,
                            !.prevPanSpeed = panSpeed_,
                            !.prevTiltSpeed = tiltSpeed_]
    /\ UNCHANGED <<constructed, camSize, panSpeed_, tiltSpeed_, pc, tick,
                   renderVirtual, elapsedTime, image, helperVisible,
                   rendererSize, canvasSize, outVars>>

\* A PanTiltMechanism constructed with any size and then driven by any
\* sequence of at most MaxCalls calls.
MechInit ==
    /\ constructed = FALSE
    /\ camSize \in CamSizes
    /\ panAngle = 0 /\ tiltAngle = 0 /\ panSpeed_ = 0 /\ tiltSpeed_ = 0
    /\ pc = "ctor"
    /\ tick = 0 /\ renderVirtual = FALSE /\ dt = 0 /\ elapsedTime = 0
    /\ image = <<>>
    /\ helperVisible = TRUE
    /\ rendererSize = virtualCameraSize /\ canvasSize = virtualCameraSize
    /\ lastRender = NoRender /\ sink = NoSink
    /\ hist = HistInit

MechNext ==
    \/ Construct
    \/ \E rad \in SpeedVals : SetTiltSpeed(rad)
    \/ \E rad \in SpeedVals : SetPanSpeed(rad)
    \/ \E delta \in DtVals : Update(delta)

MechSpec == MechInit /\ [][MechNext]_vars

\* ------------------------------------------- main: the animate callback
\* The state after main has built the scene, the mechanism, the helper, the
\* clock, tick{} and the empty cv::Mat image (lines 101-136).  The window
\* size comes from the canvas and never changes (resizable = false).
Init ==
    /\ constructed = TRUE
    /\ camSize = virtualCameraSize
    /\ panAngle = 0 /\ tiltAngle = 0 /\ panSpeed_ = 0 /\ tiltSpeed_ = 0
    /\ pc = "idle"
    /\ tick = 0 /\ renderVirtual = FALSE /\ dt = 0 /\ elapsedTime = 0
    /\ image = <<>>
    /\ helperVisible = TRUE
    /\ canvasSize \in CanvasSizes
    /\ rendererSize = canvasSize
    /\ lastRender = NoRender /\ sink = NoSink
    /\ hist = HistInit

TickBeginSetFirst ==
    /\ pc = "idle"
    /\ tick < MaxTick
    /\ renderVirtual' = ShouldRenderVirtual(tick)
    /\ \E delta \in Dts :
         /\ dt' = delta
         /\ elapsedTime' = elapsedTime + delta
         /\ panSpeed_' = SpeedAt(elapsedTime + delta)
         /\ tiltAngle' = Integrate(tiltAngle, tiltSpeed_, delta)
         /\ panAngle' = Integrate(panAngle, SpeedAt(elapsedTime + delta), delta)
    /\ hist' = [hist EXCEPT !.ticksStarted = @ + 1, !.mainRenders = 0,
                            !.gimbalRenders = 0, !.flips = 0,
                            !.lastOp = "update",
                            !.prevPan = panAngle, !.prevTilt = tiltAngle,
                            !.prevPanSpeed = panSpeed_,
                            !.prevTiltSpeed = tiltSpeed_]
    /\ pc' = "virtual"
    /\ UNCHANGED <<constructed, camSize, tiltSpeed_, tick, image, helperVisible,
                   rendererSize, canvasSize, outVars>>

\* Lines 138-147: renderVirtual from the tick's parity; dt = clock.getDelta()
\* (which also advances clock.elapsedTime); panTilt.update(dt) with the
\* speeds stored so far; then the new speed command from clock.elapsedTime
\* is stored by setPanSpeed.
TickBegin ==
    /\ pc = "idle"
    /\ tick < MaxTick
    /\ renderVirtual' = ShouldRenderVirtual(tick)
    /\ \E delta \in Dts :
         /\ dt' = delta
         /\ elapsedTime' = elapsedTime + delta
         /\ tiltAngle' = Integrate(tiltAngle, tiltSpeed_, delta)
         /\ panAngle' = Integrate(panAngle, panSpeed_, delta)
         /\ panSpeed_' = SpeedAt(elapsedTime + delta)
    /\ hist' = [hist EXCEPT !.ticksStarted = @ + 1, !.mainRenders = 0,
                            !.gimbalRenders = 0, !.flips = 0,
                            !.lastOp = "update",
                            !.prevPan = panAngle, !.prevTilt = tiltAngle,
                            !.prevPanSpeed = panSpeed_,
                            !.prevTiltSpeed = tiltSpeed_]
    /\ pc' = "virtual"
    /\ UNCHANGED <<constructed, camSize, tiltSpeed_, tick, image, helperVisible,
                   rendererSize, canvasSize, outVars>>

ResizeNoHide ==
    /\ pc = "virtual"
    /\ renderVirtual
    /\ rendererSize' = virtualCameraSize
    /\ pc' = "vrender"
    /\ UNCHANGED <<mechVars, tick, renderVirtual, dt, elapsedTime, image,
                   helperVisible, canvasSize, outVars, hist>>

\* Lines 149-152: if (renderVirtual) { clear; cameraHelper->visible = false;
\* renderer.setSize(virtualCameraSize);
HideAndResize ==
    /\ pc = "virtual"
    /\ renderVirtual
    /\ helperVisible' = FALSE
    /\ rendererSize' = virtualCameraSize
    /\ pc' = "vrender"
    /\ UNCHANGED <<mechVars, tick, renderVirtual, dt, elapsedTime, image,
                   canvasSize, outVars, hist>>

\* Line 149 on an odd tick: the capture block is skipped.
SkipVirtual ==
    /\ pc = "virtual"
    /\ ~renderVirtual
    /\ pc' = "main"
    /\ UNCHANGED <<mechVars, tick, renderVirtual, dt, elapsedTime, image,
                   helperVisible, rendererSize, canvasSize, outVars, hist>>

\* Line 153: renderer.render(scene, panTilt.getCamera())
RenderVirtual ==
    /\ pc = "vrender"
    /\ lastRender' = [cam |-> "gimbal", size |-> rendererSize,
                      helper |-> helperVisible]
    /\ hist' = [hist EXCEPT !.gimbalRenders = @ + 1]
    /\ pc' = "vread"
    /\ UNCHANGED <<mechVars, tick, renderVirtual, dt, elapsedTime, image,
                   helperVisible, rendererSize, canvasSize, sink>>

\* Lines 154-157: cameraHelper->visible = true; image = cv::Mat(...);
\* renderer.readPixels(..., image.data): a fresh buffer filled with whatever
\* the renderer drew.
RestoreAndRead ==
    /\ pc = "vread"
    /\ helperVisible' = TRUE
    /\ \E f \in Frames :
         /\ image' = f
         /\ hist' = [hist EXCEPT !.captured = f, !.capTick = tick,
                                 !.captures = @ + 1]
    /\ pc' = "main"
    /\ UNCHANGED <<mechVars, tick, renderVirtual, dt, elapsedTime,
                   rendererSize, canvasSize, outVars>>

MainRenderNoResize ==
    /\ pc = "main"
    /\ lastRender' = [cam |-> "main", size |-> rendererSize,
                      helper |-> helperVisible]
    /\ hist' = [hist EXCEPT !.mainRenders = @ + 1]
    /\ pc' = "forward"
    /\ UNCHANGED <<mechVars, tick, renderVirtual, dt, elapsedTime, image,
                   helperVisible, rendererSize, canvasSize, sink>>

\* Lines 160-162: renderer.clear(); renderer.setSize(canvas.size());
\* renderer.render(scene, camera);
MainRender ==
    /\ pc = "main"
    /\ rendererSize' = canvasSize
    /\ lastRender' = [cam |-> "main", size |-> canvasSize,
                      helper |-> helperVisible]
    /\ hist' = [hist EXCEPT !.mainRenders = @ + 1]
    /\ pc' = "forward"
    /\ UNCHANGED <<mechVars, tick, renderVirtual, dt, elapsedTime, image,
                   helperVisible, canvasSize, sink>>

ForwardNoFlip ==
    /\ pc = "forward"
    /\ renderVirtual
    /\ sink' = [tick |-> tick, frame |-> image]
    /\ hist' = [hist EXCEPT !.sinkCount = @ + 1]
    /\ pc' = "incr"
    /\ UNCHANGED <<mechVars, tick, renderVirtual, dt, elapsedTime, image,
                   helperVisible, rendererSize, canvasSize, lastRender>>

\* Lines 164-169: if (renderVirtual) { cv::flip(image, image, 0);
\* cv::imshow(openCVWindowName, image); }
Forward ==
    /\ pc = "forward"
    /\ renderVirtual
    /\ image' = Flip(image)
    /\ sink' = [tick |-> tick, frame |-> Flip(image)]
    /\ hist' = [hist EXCEPT !.sinkCount = @ + 1, !.flips = @ + 1]
    /\ pc' = "incr"
    /\ UNCHANGED <<mechVars, tick, renderVirtual, dt, elapsedTime,
                   helperVisible, rendererSize, canvasSize, lastRender>>

\* Line 164 on an odd tick: nothing is flipped or shown.
SkipForward ==
    /\ pc = "forward"
    /\ ~renderVirtual
    /\ pc' = "incr"
    /\ UNCHANGED <<mechVars, tick, renderVirtual, dt, elapsedTime, image,
                   helperVisible, rendererSize, canvasSize, outVars, hist>>

\* Line 171: ++tick; the callback returns.
TickEnd ==
    /\ pc = "incr"
    /\ tick' = tick + 1
    /\ pc' = "idle"
    /\ UNCHANGED <<mechVars, renderVirtual, dt, elapsedTime, image,
                   helperVisible, rendererSize, canvasSize, outVars, hist>>

Next ==
    \/ TickBegin
    \/ HideAndResize
    \/ SkipVirtual
    \/ RenderVirtual
    \/ RestoreAndRead
    \/ MainRender
    \/ Forward
    \/ SkipForward
    \/ TickEnd

Spec == Init /\ [][Next]_vars

\* ------------------------------------------------------------ properties
Min(a, b) == IF a <= b THEN a ELSE b
Max(a, b) == IF a >= b THEN a ELSE b

\* The speed limit as the specification words it: s cut to [-maxSpeed, maxSpeed].
Saturated(s) == Max(0 - maxSpeed_, Min(s, maxSpeed_))

\* The rows of f in reverse order: row i of the result is row Len(f)+1-i of f.
Reversed(f) == [i \in 1..Len(f) |-> f[Len(f) + 1 - i]]

AfterUpdate == pc = "api" /\ hist.lastOp = "update"

\* C1: for every stored speed s of either axis and every dt > 0, one
\* update(dt) changes the axis angle by exactly clamp(s, -maxSpeed, maxSpeed)
\* * dt, so the change never exceeds maxSpeed * dt in magnitude.
C1_SaturatingIntegrator ==
    (AfterUpdate /\ dt > 0) =>
        /\ panAngle - hist.prevPan = Saturated(hist.prevPanSpeed) * dt
        /\ tiltAngle - hist.prevTilt = Saturated(hist.prevTiltSpeed) * dt
        /\ Abs(panAngle - hist.prevPan) <= maxSpeed_ * dt
        /\ Abs(tiltAngle - hist.prevTilt) <= maxSpeed_ * dt

C1_Witness ==
    /\ AfterUpdate
    /\ dt > 0
    /\ hist.prevPanSpeed > maxSpeed_
    /\ hist.prevTiltSpeed < 0 - maxSpeed_
    /\ panAngle = hist.prevPan + maxSpeed_ * dt
    /\ tiltAngle = hist.prevTilt - maxSpeed_ * dt

C3_CaptureOnEvenTicks ==
    /\ hist.ticksStarted = (IF pc = "idle" THEN tick ELSE tick + 1)
    /\ pc = "idle" => hist.captures = (tick + 1) \div 2
    /\ pc \in {"vrender", "vread"} => tick % 2 = 0
    /\ pc \in {"main", "forward", "incr"} =>
           ((hist.capTick = tick) <=> (tick % 2 = 0))

C3_Witness ==
    /\ pc = "idle"
    /\ tick = 3
    /\ hist.captures = 2
    /\ hist.capTick = 2

\* C4: the setters store the speed unclamped and update never changes the
\* stored speed: after setPanSpeed(s) with |s| > maxSpeed and N calls of
\* update(dt) the pan angle has moved by sign(s) * maxSpeed * dt * N and the
\* stored speed is still s.
C4_ClampAtIntegrationOnly ==
    constructed =>
        /\ panSpeed_ = hist.cmdPan
        /\ tiltSpeed_ = hist.cmdTilt
        /\ Abs(hist.cmdPan) > maxSpeed_ =>
               panAngle - hist.runStart =
                   Sign(hist.cmdPan) * maxSpeed_ * hist.runDt * hist.runN

C4_Witness ==
    /\ AfterUpdate
    /\ hist.cmdPan > maxSpeed_
    /\ panSpeed_ = hist.cmdPan
    /\ hist.runN >= 2
    /\ hist.runDt > 0
    /\ panAngle - hist.runStart = maxSpeed_ * hist.runDt * hist.runN
    /\ panAngle - hist.runStart # hist.cmdPan * hist.runDt * hist.runN

\* C5: every tick, of either parity, makes exactly one main-camera render,
\* and at that render the renderer has the window's size, also when the tick
\* set it to the virtual camera's size for the capture.
C5_MainRenderAtWindowSize ==
    /\ lastRender.cam = "main" => lastRender.size = canvasSize
    /\ pc \in {"virtual", "vrender", "vread", "main"} => hist.mainRenders = 0
    /\ pc \in {"forward", "incr"} =>
           hist.mainRenders = 1 /\ lastRender.cam = "main"
    /\ (pc = "idle" /\ tick > 0) => hist.mainRenders = 1

C5_Witness ==
    /\ pc = "forward"
    /\ renderVirtual
    /\ hist.gimbalRenders = 1
    /\ canvasSize # virtualCameraSize
    /\ lastRender = [cam |-> "main", size |-> canvasSize, helper |-> TRUE]

\* C6: the camera helper is invisible at every render from the gimbal camera
\* and visible at every main-camera render; it is visible again when the
\* capture step ends, hence at the end of every tick.
C6_HelperHiddenInCapture ==
    /\ lastRender.cam = "gimbal" => ~lastRender.helper
    /\ lastRender.cam = "main" => lastRender.helper
    /\ pc \in {"idle", "virtual", "main", "forward", "incr"} => helperVisible

C6_Witness ==
    /\ pc = "main"
    /\ renderVirtual
    /\ lastRender.cam = "gimbal"
    /\ ~lastRender.helper
    /\ helperVisible

\* C7: constructing the system with a virtual camera resolution that has a
\* zero or negative dimension fails at construction: no mechanism is ever
\* constructed with such a size.
C7_BadSizeRejected ==
    constructed => (camSize[1] > 0 /\ camSize[2] > 0)

\* C8 as stated: update(dt) with dt <= 0 leaves both joint angles as they
\* were, for any stored speeds.
C8_NonPositiveDtNoOp ==
    (AfterUpdate /\ dt <= 0) =>
        (panAngle = hist.prevPan /\ tiltAngle = hist.prevTilt)

\* C8 amended: update(0) leaves both joint angles as they were; update(dt)
\* with dt < 0 integrates like any other dt, moving each angle by
\* clamp(s, -maxSpeed, maxSpeed) * dt, so it leaves an axis alone only when
\* that axis's stored speed is 0.
C8_ZeroDtNoOp ==
    (AfterUpdate /\ dt <= 0) =>
        /\ dt = 0 => (panAngle = hist.prevPan /\ tiltAngle = hist.prevTilt)
        /\ panAngle - hist.prevPan = Saturated(hist.prevPanSpeed) * dt
        /\ tiltAngle - hist.prevTilt = Saturated(hist.prevTiltSpeed) * dt
        /\ (panAngle = hist.prevPan) <=> (dt = 0 \/ hist.prevPanSpeed = 0)
        /\ (tiltAngle = hist.prevTilt) <=> (dt = 0 \/ hist.prevTiltSpeed = 0)

C8_Witness ==
    /\ AfterUpdate
    /\ dt < 0
    /\ hist.prevPanSpeed > 0
    /\ panAngle < hist.prevPan

\* C9: the transcoding step only reverses the row order: row i of the
\* flipped frame is row height+1-i of the captured one (rows counted from
\* 1), and flipping the flipped frame gives the captured frame back.
C9_FlipInvolutive ==
    (pc = "incr" /\ renderVirtual) =>
        /\ Len(image) = Len(hist.captured)
        /\ Len(image) > 0
        /\ \A i \in 1..Len(image) :
               image[i] = hist.captured[Len(image) + 1 - i]
        /\ Flip(image) = hist.captured
        /\ Flip(Flip(image)) = image

C9_Witness ==
    /\ pc = "incr"
    /\ renderVirtual
    /\ image # hist.captured
    /\ image[1] = hist.captured[Len(image)]
    /\ Flip(image) = hist.captured

\* C10: a frame reaches the display sink in exactly the even ticks; it is
\* the buffer captured in that same tick, row-reversed once; no earlier
\* frame is forwarded again and no capture overwrites an unforwarded buffer.
C10_ForwardOnCaptureTicks ==
    /\ sink.tick # -1 => sink.tick % 2 = 0
    /\ (pc = "incr" /\ tick % 2 = 0) =>
           /\ sink.tick = tick
           /\ hist.capTick = tick
           /\ hist.flips = 1
           /\ sink.frame = Reversed(hist.captured)
    /\ (pc = "incr" /\ tick % 2 = 1) =>
           /\ sink.tick = tick - 1
           /\ hist.flips = 0
    /\ pc = "idle" => hist.sinkCount = (tick + 1) \div 2
    /\ hist.captures - hist.sinkCount \in {0, 1}
    /\ hist.captures - hist.sinkCount = 1 =>
           (pc \in {"main", "forward"} /\ hist.capTick = tick)

C10_Witness ==
    /\ pc = "incr"
    /\ tick = 2
    /\ sink.tick = 2
    /\ hist.sinkCount = 2
    /\ sink.frame # hist.captured
    /\ sink.frame = Reversed(hist.captured)

====
